---- MODULE Spec2Model ----
(***************************************************************************)
(* Delivery dashboard (src/dashboard.py): load_data resolves every feed    *)
(* row to a delivery timestamp, each script run filters the resolved rows  *)
(* against now, renders the cards and raises the toast alert.              *)
(*                                                                         *)
(* Time is counted in minutes.  A date is the number of days since         *)
(* 1 January; a timestamp is date * MinutesPerDay + minute of the day.     *)
(* A string is a sequence of one-character strings; the Thai word for      *)
(* "afternoon" of the second regular expression is the single token "A".   *)
(***************************************************************************)
EXTENDS Integers, Sequences, FiniteSets, TLC

VARIABLES feed, cache, df, now, search,
          pending, today_df, tomorrow_df, week_df, near_df,
          summary, cards, toast

vars == <<feed, cache, df, now, search,
          pending, today_df, tomorrow_df, week_df, near_df,
          summary, cards, toast>>

-----------------------------------------------------------------------------
(* Bounds of the model *)

\* longest remarks text of the text specification
MaxLen == 5
\* most rows of a feed of the dashboard specification
MaxRows == 2
\* the dashboard specification stops the clock after this many hours
MaxHours == 34

-----------------------------------------------------------------------------
(* Units and program constants *)

MinutesPerHour == 60
MinutesPerDay == 1440
\* ALERT_BEFORE = timedelta(hours=2), in minutes
ALERT_BEFORE == 120
\* @st.cache_data(ttl=300): 300 seconds, in minutes
CACHE_TTL == 5

-----------------------------------------------------------------------------
(* Characters and strings *)

AllDigits == <<"0", "1", "2", "3", "4", "5", "6", "7", "8", "9">>

DigitChars == {AllDigits[i] : i \in 1..10}

\* \d of the regular expressions
IsDigit(c) == c \in DigitChars

\* [:.] of the first regular expression
IsSeparator(c) == c \in {":", "."}

\* \s of the second regular expression
IsSpace(c) == c = " "

\* the word of the second regular expression
Afternoon == "A"

\* a missing cell, as pandas reads it
NaN == <<"NaN">>

DigitVal(c) == (CHOOSE i \in 1..10 : AllDigits[i] = c) - 1

\* int(s) of a string of digits
RECURSIVE IntOf(_)
IntOf(s) ==
    IF s = <<>> THEN 0
    ELSE 10 * IntOf(SubSeq(s, 1, Len(s) - 1)) + DigitVal(s[Len(s)])

\* str(n) of a natural number
RECURSIVE StrOf(_)
StrOf(n) ==
    IF n < 10 THEN <<AllDigits[n + 1]>>
    ELSE StrOf(n \div 10) \o <<AllDigits[(n % 10) + 1]>>

\* f"{n:02d}"
Format02d(n) == IF n < 10 THEN <<"0">> \o StrOf(n) ELSE StrOf(n)

DigitAt(t, i) == i >= 1 /\ i <= Len(t) /\ IsDigit(t[i])

-----------------------------------------------------------------------------
(* extract_time *)

NoMatch == <<>>

\* (\d{1,2})[:.](\d{2}) anchored at i: the groups <<h, mnt>>, the two-digit
\* hour tried first
TimeMatchAt(t, i) ==
    IF /\ DigitAt(t, i) /\ DigitAt(t, i + 1)
       /\ i + 2 <= Len(t) /\ IsSeparator(t[i + 2])
       /\ DigitAt(t, i + 3) /\ DigitAt(t, i + 4)
    THEN <<SubSeq(t, i, i + 1), SubSeq(t, i + 3, i + 4)>>
    ELSE IF /\ DigitAt(t, i)
            /\ i + 1 <= Len(t) /\ IsSeparator(t[i + 1])
            /\ DigitAt(t, i + 2) /\ DigitAt(t, i + 3)
    THEN <<SubSeq(t, i, i), SubSeq(t, i + 2, i + 3)>>
    ELSE NoMatch

\* re.search(r"(\d{1,2})[:.](\d{2})", text): the leftmost match from i on
RECURSIVE SearchTime(_, _)
SearchTime(t, i) ==
    IF i > Len(t) THEN NoMatch
    ELSE IF TimeMatchAt(t, i) # NoMatch THEN TimeMatchAt(t, i)
    ELSE SearchTime(t, i + 1)

\* \s* from position j: the first position that holds no white space
RECURSIVE SkipSpaces(_, _)
SkipSpaces(t, j) ==
    IF j <= Len(t) /\ IsSpace(t[j]) THEN SkipSpaces(t, j + 1) ELSE j

\* the word, \s*, (\d{1,2}) anchored at i: the group <<n>>
AfternoonMatchAt(t, i) ==
    IF t[i] # Afternoon THEN NoMatch
    ELSE LET j == SkipSpaces(t, i + 1) IN
         IF DigitAt(t, j) /\ DigitAt(t, j + 1) THEN <<SubSeq(t, j, j + 1)>>
         ELSE IF DigitAt(t, j) THEN <<SubSeq(t, j, j)>>
         ELSE NoMatch

\* re.search of the afternoon expression: the leftmost match from i on
RECURSIVE SearchAfternoon(_, _)
SearchAfternoon(t, i) ==
    IF i > Len(t) THEN NoMatch
    ELSE IF AfternoonMatchAt(t, i) # NoMatch THEN AfternoonMatchAt(t, i)
    ELSE SearchAfternoon(t, i + 1)

Sentinel == <<"2", "3", ":", "5", "9">>

\* extract_time with the afternoon rule tried before the digit rule
extract_time_AfternoonFirst(text) ==
    IF text = NaN THEN Sentinel
    ELSE LET a == SearchAfternoon(text, 1) IN
         IF a # NoMatch THEN Format02d(IntOf(a[1]) + 12) \o <<":", "0", "0">>
         ELSE LET m == SearchTime(text, 1) IN
              IF m # NoMatch THEN Format02d(IntOf(m[1])) \o <<":">> \o m[2]
              ELSE Sentinel

extract_time(text) ==
    IF text = NaN THEN Sentinel
    ELSE LET m == SearchTime(text, 1) IN
         IF m # NoMatch THEN Format02d(IntOf(m[1])) \o <<":">> \o m[2]
         ELSE LET a == SearchAfternoon(text, 1) IN
              IF a # NoMatch THEN Format02d(IntOf(a[1]) + 12) \o <<":", "0", "0">>
              ELSE Sentinel

-----------------------------------------------------------------------------
(* Parsing of the clock string and of the date cell *)

NaT == -1

\* %H of strptime: 2[0-3] | [0-1]\d | \d, the longest alternative that fits
HourLen(s) ==
    IF Len(s) >= 2 /\ s[1] = "2" /\ s[2] \in {"0", "1", "2", "3"} THEN 2
    ELSE IF Len(s) >= 2 /\ s[1] \in {"0", "1"} /\ IsDigit(s[2]) THEN 2
    ELSE IF Len(s) >= 1 /\ IsDigit(s[1]) THEN 1
    ELSE 0

\* %M of strptime: [0-5]\d | \d
MinuteLen(s) ==
    IF Len(s) >= 2 /\ s[1] \in {"0", "1", "2", "3", "4", "5"} /\ IsDigit(s[2]) THEN 2
    ELSE IF Len(s) >= 1 /\ IsDigit(s[1]) THEN 1
    ELSE 0

\* the clock string split at its colon and taken as hours and minutes with no
\* check of their range
ParseClock_NoRangeCheck(s) ==
    IntOf(SubSeq(s, 1, Len(s) - 3)) * MinutesPerHour
        + IntOf(SubSeq(s, Len(s) - 1, Len(s)))

\* pd.to_datetime(s, format="%H:%M", errors="coerce").dt.time: the minute of
\* the day, NaT when the string does not match the format in full
ParseClock(s) ==
    LET hl == HourLen(s) IN
    IF hl = 0 \/ Len(s) < hl + 1 \/ s[hl + 1] # ":" THEN NaT
    ELSE LET rest == SubSeq(s, hl + 2, Len(s))
             ml == MinuteLen(rest) IN
         IF ml = 0 \/ ml # Len(rest) THEN NaT
         ELSE IntOf(SubSeq(s, 1, hl)) * MinutesPerHour + IntOf(rest)

\* .fillna(datetime.strptime("23:59", "%H:%M").time())
FillNa(t) == IF t = NaT THEN ParseClock(Sentinel) ELSE t

MonthDays == <<31, 28, 31, 30, 31, 30, 31, 31, 30, 31, 30, 31>>

RECURSIVE DaysBefore(_)
DaysBefore(m) == IF m = 1 THEN 0 ELSE DaysBefore(m - 1) + MonthDays[m - 1]

\* pd.to_datetime(cell, errors="coerce", dayfirst=True) of a cell <<day, month>>:
\* the date, NaT when the cell names no day of the year
ParseDate(cell) ==
    IF /\ cell[2] \in 1..12
       /\ cell[1] >= 1 /\ cell[1] <= MonthDays[cell[2]]
    THEN DaysBefore(cell[2]) + cell[1] - 1
    ELSE NaT

\* datetime.combine(date, time)
Combine(date, time) == date * MinutesPerDay + time

\* dt.date()
DateOf(dt) == dt \div MinutesPerDay

-----------------------------------------------------------------------------
(* load_data *)

\* pd.read_csv: an empty cell is read as missing
ReadCsv(cell) == IF cell = <<>> THEN NaN ELSE cell

\* one row of the frame load_data returns; extracted is the value
\* extract_time returned for the row
ResolveRow(r) ==
    LET date == ParseDate(r.date)
        remarks == ReadCsv(r.remarks)
        extracted == extract_time(remarks)
        time == FillNa(ParseClock(extracted))
    IN [date |-> date, remarks |-> remarks, so |-> r.so,
        customers |-> r.customers, product |-> r.product,
        extracted |-> extracted,
        delivery_time |-> time,
        delivery_datetime |-> Combine(date, time)]

\* rows with any missing cell dropped, not only those without a date
KeptRows_DropAnyNa(f) ==
    {i \in 1..Len(f) : ParseDate(f[i].date) # NaT /\ ReadCsv(f[i].remarks) # NaN}

\* df[df["Requested Delivery Date"].notna()]: the row labels that are kept
KeptRows(f) == {i \in 1..Len(f) : ParseDate(f[i].date) # NaT}

\* the frame, as a function from the kept row labels to the resolved rows
load_data(f) == [i \in KeptRows(f) |-> ResolveRow(f[i])]

-----------------------------------------------------------------------------
(* Helpers and filters of a script run *)

URGENT == "URGENT"
TODAY == "TODAY"
FUTURE == "FUTURE"

\* get_order_icon with the same-day check made first
get_order_icon_SameDayFirst(delivery_dt, n) ==
    IF DateOf(delivery_dt) = DateOf(n) THEN TODAY
    ELSE IF delivery_dt - n <= ALERT_BEFORE THEN URGENT
    ELSE FUTURE

\* get_order_icon with the two-hour bound left out of the window
get_order_icon_StrictBound(delivery_dt, n) ==
    IF delivery_dt - n < ALERT_BEFORE THEN URGENT
    ELSE IF DateOf(delivery_dt) = DateOf(n) THEN TODAY
    ELSE FUTURE

get_order_icon(delivery_dt, n) ==
    LET diff == delivery_dt - n IN
    IF diff <= ALERT_BEFORE THEN URGENT
    ELSE IF DateOf(delivery_dt) = DateOf(n) THEN TODAY
    ELSE FUTURE

\* pending with the comparison turned round
Pending_Flipped(d, n) == {i \in DOMAIN d : d[i].delivery_datetime <= n}

\* pending = df[df["delivery_datetime"] >= now]
Pending(d, n) == {i \in DOMAIN d : d[i].delivery_datetime >= n}

TodayDf(d, p, n) == {i \in p : d[i].date = DateOf(n)}

TomorrowDf(d, p, n) == {i \in p : d[i].date = DateOf(n) + 1}

\* the week window opened at tomorrow instead of after it
WeekDf_FromTomorrow(d, p, n) ==
    {i \in p : d[i].date > DateOf(n) /\ d[i].date <= DateOf(n) + 7}

WeekDf(d, p, n) ==
    {i \in p : d[i].date > DateOf(n) + 1 /\ d[i].date <= DateOf(n) + 7}

\* near_df taken from the whole frame instead of pending
NearDf_FromFrame(d, p, n) ==
    {i \in DOMAIN d : d[i].delivery_datetime - n <= ALERT_BEFORE}

\* near_df = pending[(pending["delivery_datetime"] - now) <= ALERT_BEFORE]
NearDf(d, p, n) == {i \in p : d[i].delivery_datetime - n <= ALERT_BEFORE}

\* str.contains(search): search occurs in the text
Contains(text, s) ==
    \E k \in 0..(Len(text) - Len(s)) : SubSeq(text, k + 1, k + Len(s)) = s

\* the rows the cards and the table show: pending, narrowed by the search
Searched(d, p, s) ==
    IF s = <<>> THEN p
    ELSE {i \in p : \/ Contains(d[i].so, s)
                    \/ Contains(d[i].customers, s)
                    \/ Contains(d[i].product, s)}

\* sort_values("delivery_datetime"): the labels of S by timestamp, rows of
\* one timestamp in label order
RECURSIVE SortByDatetime(_, _)
SortByDatetime(d, S) ==
    IF S = {} THEN <<>>
    ELSE LET first == CHOOSE i \in S : \A j \in S :
                          \/ d[i].delivery_datetime < d[j].delivery_datetime
                          \/ /\ d[i].delivery_datetime = d[j].delivery_datetime
                             /\ i <= j
         IN <<first>> \o SortByDatetime(d, S \ {first})

\* render_cards: one card per row, in order, with the row's icon
render_cards(d, order, n) ==
    [k \in 1..Len(order) |->
        [row |-> order[k],
         icon |-> get_order_icon(d[order[k]].delivery_datetime, n),
         time |-> d[order[k]].delivery_time]]

\* the three metrics of the summary
Summary(t, nr, p) ==
    [today |-> Cardinality(t), near |-> Cardinality(nr), pending |-> Cardinality(p)]

\* the toast held back once it has been shown, as an acknowledged alert would be
Toast_Acknowledged(nr) ==
    [shown |-> nr # {} /\ ~toast.shown, count |-> Cardinality(nr)]

\* if not near_df.empty: st.toast(...)
Toast(nr) == [shown |-> nr # {}, count |-> Cardinality(nr)]

NoToast == [shown |-> FALSE, count |-> 0]

\* the cache slot of load_data
EmptyCache == [valid |-> FALSE, at |-> 0]

\* the cached frame is returned while it is younger than the time to live
CacheHit(c, n) == c.valid /\ n - c.at < CACHE_TTL

-----------------------------------------------------------------------------
(* Inputs *)

TextChars == {"0", "1", "3", "7", ":", ".", Afternoon, " ", "x"}

Texts == {NaN} \cup UNION {[1..k -> TextChars] : k \in 0..MaxLen}

\* date cells <<day, month>>; 30 February names no day
DateCells == {<<1, 1>>, <<2, 1>>, <<9, 1>>, <<30, 2>>}

\* no remarks, and remarks that give the time 10:00
RemarkCells == {<<>>, <<"1", "0", ":", "0", "0">>}

SoCells == {<<"a">>, <<"b">>}

FeedRows ==
    [date : DateCells, remarks : RemarkCells, so : SoCells,
     customers : {<<"c">>}, product : {<<"p">>}]

Feeds == UNION {[1..k -> FeedRows] : k \in 0..MaxRows}

SearchTexts == {<<>>, <<"a">>}

\* the clock moves on by one of these between two script runs
Steps == {0, 120, 1440}

-----------------------------------------------------------------------------
(* The dashboard: script runs over a feed *)

Blank ==
    /\ cache = EmptyCache
    /\ df = <<>>
    /\ search = <<>>
    /\ pending = {}
    /\ today_df = {}
    /\ tomorrow_df = {}
    /\ week_df = {}
    /\ near_df = {}
    /\ summary = Summary({}, {}, {})
    /\ cards = <<>>
    /\ toast = NoToast

Init ==
    /\ feed \in Feeds
    /\ now = 0
    /\ Blank

\* one run of the script at time n with s in the search box
Run(n, s) ==
    /\ now' = n
    /\ search' = s
    /\ cache' = IF CacheHit(cache, n) THEN cache ELSE [valid |-> TRUE, at |-> n]
    /\ df' = IF CacheHit(cache, n) THEN df ELSE load_data(feed)
    /\ pending' = Pending(df', n)
    /\ today_df' = TodayDf(df', pending', n)
    /\ tomorrow_df' = TomorrowDf(df', pending', n)
    /\ week_df' = WeekDf(df', pending', n)
    /\ near_df' = NearDf(df', pending', n)
    /\ summary' = Summary(today_df', near_df', pending')
    /\ cards' = render_cards(df', SortByDatetime(df', Searched(df', pending', s)), n)
    /\ toast' = Toast(near_df')
    /\ UNCHANGED feed

Refresh ==
    \E step \in Steps, s \in SearchTexts :
        /\ now + step <= MaxHours * MinutesPerHour
        /\ Run(now + step, s)

Next == Refresh

Spec == Init /\ [][Next]_vars

-----------------------------------------------------------------------------
(* load_data alone, over every remarks text *)

TextRow(t) ==
    [date |-> <<2, 1>>, remarks |-> t, so |-> <<"a">>,
     customers |-> <<"c">>, product |-> <<"p">>]

InitText ==
    /\ feed \in {<<TextRow(t)>> : t \in Texts}
    /\ now = 0
    /\ Blank

LoadData ==
    /\ ~cache.valid
    /\ df' = load_data(feed)
    /\ cache' = [valid |-> TRUE, at |-> now]
    /\ UNCHANGED <<feed, now, search, pending, today_df, tomorrow_df, week_df,
                   near_df, summary, cards, toast>>

NextText == LoadData

SpecText == InitText /\ [][NextText]_vars

-----------------------------------------------------------------------------
(* get_order_icon over every pair of timestamps: render_cards on the whole *)
(* frame, rows behind now included                                         *)

\* remarks that give no time, 10:00 and 01:00
IconRemarks ==
    {<<>>, <<"1", "0", ":", "0", "0">>, <<"0", "1", ":", "0", "0">>}

IconRows ==
    [date : DateCells, remarks : IconRemarks, so : {<<"a">>},
     customers : {<<"c">>}, product : {<<"p">>}]

IconNows == {h * MinutesPerHour : h \in 0..MaxHours}

InitIcon ==
    /\ feed \in UNION {[1..k -> IconRows] : k \in 1..MaxRows}
    /\ now \in IconNows
    /\ Blank

RenderAll ==
    /\ cache.valid
    /\ cards' = render_cards(df, SortByDatetime(df, DOMAIN df), now)
    /\ UNCHANGED <<feed, cache, df, now, search, pending, today_df, tomorrow_df,
                   week_df, near_df, summary, toast>>

NextIcon == LoadData \/ RenderAll

SpecIcon == InitIcon /\ [][NextIcon]_vars

-----------------------------------------------------------------------------
(* Claims about extract_time and the resolution of the clock string        *)
(* (SpecText)                                                              *)

\* the remarks cell of the only row of the text feed, and its resolved row
TextCell == feed[1].remarks
TextOut == df[1]

\* a run of 1 or 2 digits (len), a separator and 2 digits stand at i in t
TimePatternAt(t, i, len) ==
    /\ \A k \in i..(i + len - 1) : DigitAt(t, k)
    /\ i + len <= Len(t) /\ t[i + len] \in {":", "."}
    /\ DigitAt(t, i + len + 1) /\ DigitAt(t, i + len + 2)

HasTimePattern(t) ==
    \E i \in 1..Len(t), len \in {1, 2} : TimePatternAt(t, i, len)

\* the afternoon word stands at i in t and, after white space only, the
\* number N starts at j
AfternoonAt(t, i, j) ==
    /\ t[i] = Afternoon
    /\ j > i
    /\ \A k \in (i + 1)..(j - 1) : t[k] = " "
    /\ DigitAt(t, j)

HasAfternoon(t) == \E i \in 1..Len(t), j \in 1..Len(t) : AfternoonAt(t, i, j)

\* the number that starts at j: its one or two digits
NumberAt(t, j) ==
    IF DigitAt(t, j + 1) THEN 10 * DigitVal(t[j]) + DigitVal(t[j + 1])
    ELSE DigitVal(t[j])

\* a number below 100 written with two digits
TwoDigits(n) == <<AllDigits[(n \div 10) + 1], AllDigits[(n % 10) + 1]>>

\* C4: extract_time is total and applies its rules in a fixed priority: absent
\* or empty remarks give "23:59"; otherwise a text that holds 1-2 digits, ':'
\* or '.', 2 digits gives the zero-padded hour and the minute digits of such a
\* match with no range check, also when the afternoon phrase occurs in the
\* text; otherwise a text with the afternoon phrase followed by N gives
\* (N+12):00 with no bound on N; otherwise "23:59".
C4_ExtractTimePriority ==
    cache.valid =>
        LET t == TextCell
            e == TextOut.extracted
        IN IF t = NaN \/ t = <<>> THEN e = Sentinel
           ELSE IF HasTimePattern(t)
           THEN \E i \in 1..Len(t), len \in {1, 2} :
                    /\ TimePatternAt(t, i, len)
                    /\ e = TwoDigits(IntOf(SubSeq(t, i, i + len - 1)))
                           \o <<":", t[i + len + 1], t[i + len + 2]>>
           ELSE IF HasAfternoon(t)
           THEN \E i \in 1..Len(t), j \in 1..Len(t) :
                    /\ AfternoonAt(t, i, j)
                    /\ e = StrOf(NumberAt(t, j) + 12) \o <<":", "0", "0">>
           ELSE e = Sentinel

\* C4 witness: a text in which the afternoon phrase comes first and a digit
\* pattern follows has been resolved by the digit rule (A1:30 gives 01:30)
C4_Witness ==
    /\ cache.valid
    /\ TextCell = <<Afternoon, "1", ":", "3", "0">>
    /\ TextOut.extracted = <<"0", "1", ":", "3", "0">>

\* the hour and the minute the extracted string names: the digits before its
\* last three characters, and its last two digits
ExtractedHour(e) == IntOf(SubSeq(e, 1, Len(e) - 3))
ExtractedMinute(e) == IntOf(SubSeq(e, Len(e) - 1, Len(e)))

\* C5: resolution never fails: when the extracted string is no valid time of
\* day (hour >= 24 or minutes >= 60) the row is kept, its delivery_time is
\* 23:59 and its delivery_datetime the requested date at 23:59; when it is a
\* valid time, delivery_datetime is the requested date at exactly that time.
C5_InvalidClockFallsBack ==
    cache.valid =>
        /\ 1 \in DOMAIN df
        /\ LET e == TextOut.extracted
               day == ParseDate(feed[1].date)
               valid == ExtractedHour(e) < 24 /\ ExtractedMinute(e) < 60
               clock == IF valid THEN 60 * ExtractedHour(e) + ExtractedMinute(e)
                        ELSE 23 * 60 + 59
           IN /\ e[Len(e) - 2] = ":"
              /\ TextOut.delivery_time = clock
              /\ TextOut.delivery_datetime = day * MinutesPerDay + clock

\* C5 witness: the afternoon rule gave "25:00" and the row holds 23:59
C5_Witness ==
    /\ cache.valid
    /\ TextOut.extracted = <<"2", "5", ":", "0", "0">>
    /\ TextOut.delivery_time = 23 * 60 + 59

-----------------------------------------------------------------------------
(* Claim about get_order_icon (SpecIcon) *)

\* C2: for every delivery timestamp T and every now N the icon is URGENT
\* whenever T - N <= 2 hours, also when T < N and when T and N fall on
\* different dates; when T - N > 2 hours it is TODAY if T and N share a date
\* and FUTURE otherwise.
C2_IconByTwoHourWindowFirst ==
    \A k \in 1..Len(cards) :
        LET T == df[cards[k].row].delivery_datetime IN
        /\ T - now <= 120 => cards[k].icon = URGENT
        /\ T - now > 120 /\ T \div MinutesPerDay = now \div MinutesPerDay
               => cards[k].icon = TODAY
        /\ T - now > 120 /\ T \div MinutesPerDay # now \div MinutesPerDay
               => cards[k].icon = FUTURE

\* C2 witness: one card of a row behind now and one of a row of another day
\* ahead of now within two hours, both URGENT
C2_Witness ==
    /\ \E k \in 1..Len(cards) :
          /\ df[cards[k].row].delivery_datetime < now
          /\ cards[k].icon = URGENT
    /\ \E k \in 1..Len(cards) :
          /\ df[cards[k].row].delivery_datetime > now
          /\ df[cards[k].row].date # now \div MinutesPerDay
          /\ cards[k].icon = URGENT

-----------------------------------------------------------------------------
(* Claims about load_data and the script run (Spec) *)

\* the delivery timestamp of row i of the frame
DeliveryOf(i) == df[i].delivery_datetime

\* the date of now
Today == now \div MinutesPerDay

\* the rows the cards show with the given icon
CardRows(icon) == {cards[k].row : k \in {c \in 1..Len(cards) : cards[c].icon = icon}}

ShownRows == {cards[k].row : k \in 1..Len(cards)}

\* C1: after load_data the resolved orders correspond one-to-one with the feed
\* rows whose requested date parses: rows with an unparseable date are
\* dropped, every row with a valid date yields exactly one resolved order
\* whatever its remarks hold, and its delivery_datetime lies on the day of the
\* requested date, at the extracted clock time or at 23:59.
C1_ResolvedRowsMatchValidDates ==
    cache.valid =>
        /\ DOMAIN df = {i \in 1..Len(feed) : ParseDate(feed[i].date) # NaT}
        /\ \A i \in DOMAIN df :
              /\ df[i].so = feed[i].so
              /\ df[i].date = ParseDate(feed[i].date)
              /\ DeliveryOf(i) \div MinutesPerDay = ParseDate(feed[i].date)
              /\ DeliveryOf(i) % MinutesPerDay
                     \in {ParseClock(df[i].extracted), 23 * 60 + 59}

\* C1 witness: a feed of two rows, the first with an unparseable date and
\* dropped, the second without remarks and kept under its own label
C1_Witness ==
    /\ cache.valid
    /\ Len(feed) = 2
    /\ ParseDate(feed[1].date) = NaT
    /\ feed[2].remarks = <<>>
    /\ DOMAIN df = {2}
    /\ df[2].delivery_time = 23 * 60 + 59

\* C3: every order in pending belongs to exactly one of four classes by its
\* requested date: today_df (date = today), tomorrow_df (date = today + 1),
\* week_df (today + 1 < date <= today + 7) or beyond 7 days (in none of the
\* three); no pending order has a requested date before today, and the class
\* does not depend on whether the order is in near_df.
C3_WindowsPartitionPending ==
    \A i \in pending :
        LET classes ==
                {c \in 1..4 :
                    \/ c = 1 /\ i \in today_df
                    \/ c = 2 /\ i \in tomorrow_df
                    \/ c = 3 /\ i \in week_df
                    \/ c = 4 /\ i \notin today_df \cup tomorrow_df \cup week_df
                             /\ df[i].date > Today + 7}
        IN /\ Cardinality(classes) = 1
           /\ df[i].date >= Today
           /\ i \in today_df <=> df[i].date = Today
           /\ i \in tomorrow_df <=> df[i].date = Today + 1
           /\ i \in week_df <=> df[i].date > Today + 1 /\ df[i].date <= Today + 7

\* C3 witness: pending holds an order of today that is also near and an order
\* of the week, while an order dated before today is no longer pending
C3_Witness ==
    /\ \E i \in pending : i \in today_df /\ i \in near_df
    /\ \E i \in pending : i \in week_df
    /\ Today = 1

\* C6 as stated: an order whose delivery timestamp is behind now but within
\* the 2-hour margin is a member of the near set
C6_OverdueWithinMarginIsNear ==
    cache.valid =>
        \A i \in DOMAIN df :
            DeliveryOf(i) < now /\ now - DeliveryOf(i) <= 120 => i \in near_df

\* C6 amended: the near set consists of the orders due at or after now and
\* within 2 hours of now; an order whose delivery timestamp is behind now is
\* never a member, is not counted in the summary and does not drive the alert.
C6_NearIsDueWithinTwoHoursNotOverdue ==
    cache.valid =>
        /\ near_df = {i \in DOMAIN df : DeliveryOf(i) >= now
                                         /\ DeliveryOf(i) - now <= 120}
        /\ summary.near = Cardinality(near_df)
        /\ toast.count = Cardinality(near_df)
        /\ \A i \in DOMAIN df : DeliveryOf(i) < now => i \notin near_df

\* C6 witness: an order two hours or less behind now is outside the near set
\* and no alert is shown
C6_Witness ==
    /\ cache.valid
    /\ \E i \in DOMAIN df :
          /\ DeliveryOf(i) < now /\ now - DeliveryOf(i) <= 120
          /\ i \notin near_df
    /\ summary.near = 0
    /\ ~toast.shown

C8_SentinelNeverAlerts ==
    cache.valid =>
        \A i \in DOMAIN df :
            df[i].remarks = NaN =>
                /\ df[i].delivery_time = 23 * 60 + 59
                /\ i \notin near_df
                /\ ~(toast.shown /\ near_df = {i})

\* C9: every pending order is in near_df exactly when its card has the URGENT
\* icon, so with no search text the summary count and the alert count of near
\* orders equal the number of URGENT cards; an order requested today whose
\* time T satisfies now <= T <= now + 2h is in today_df and in near_df and
\* shows URGENT.
C9_NearIffUrgentCard ==
    cache.valid =>
        /\ \A k \in 1..Len(cards) :
              cards[k].row \in pending
              /\ (cards[k].icon = URGENT <=> cards[k].row \in near_df)
        /\ search = <<>> =>
              /\ ShownRows = pending
              /\ Len(cards) = Cardinality(pending)
              /\ CardRows(URGENT) = near_df
              /\ summary.near = Cardinality(CardRows(URGENT))
              /\ toast.count = Cardinality(CardRows(URGENT))
        /\ \A i \in DOMAIN df :
              /\ df[i].date = Today
              /\ now <= DeliveryOf(i) /\ DeliveryOf(i) <= now + 120
              => /\ i \in today_df
                 /\ i \in near_df
                 /\ i \in ShownRows => i \in CardRows(URGENT)

\* C9 witness: with no search text an order of today exactly two hours ahead
\* is in today_df and near_df and has the URGENT card, next to a pending order
\* with another icon
C9_Witness ==
    /\ cache.valid
    /\ search = <<>>
    /\ \E i \in today_df : DeliveryOf(i) = now + 120 /\ i \in CardRows(URGENT)
    /\ \E i \in pending : i \notin near_df /\ i \in CardRows(FUTURE)

\* the rank of an icon: a status only moves to a higher rank
Rank(icon) == IF icon = URGENT THEN 3 ELSE IF icon = TODAY THEN 2 ELSE 1

\* the icon on the card of row i, in a sequence of cards that shows it
IconIn(cs, i) == cs[CHOOSE k \in 1..Len(cs) : cs[k].row = i].icon

\* C10: with the resolved order set fixed and now advancing, each order's
\* status only moves forward: its icon never goes from URGENT back to TODAY or
\* FUTURE nor from TODAY back to FUTURE, once it is in near_df it stays there
\* until it leaves pending, and once it has left pending it never re-enters
\* pending, near_df or any of the today, tomorrow and week sets.
C10_StatusOnlyMovesForward ==
    [][ (cache.valid /\ df' = df /\ now' >= now) =>
          \A i \in DOMAIN df :
              /\ (i \in near_df /\ i \in pending') => i \in near_df'
              /\ i \notin pending =>
                    i \notin pending' \cup near_df' \cup today_df'
                               \cup tomorrow_df' \cup week_df'
              /\ (i \in {cards[k].row : k \in 1..Len(cards)}
                    /\ i \in {cards'[k].row : k \in 1..Len(cards')})
                 => Rank(IconIn(cards', i)) >= Rank(IconIn(cards, i)) ]_vars

\* C10 witness: after the clock has moved, one order has left pending and
\* another, pending, is near with the URGENT card
C10_Witness ==
    /\ cache.valid
    /\ now >= MinutesPerDay
    /\ \E i \in DOMAIN df : i \notin pending
    /\ \E i \in near_df : i \in CardRows(URGENT)

====
